---- MODULE Spec2Model ----
(***************************************************************************)
(* The session orchestrator of dev-server-orchestrator (backend/index.js), *)
(* as a state machine.  Every Express handler is an async function: it     *)
(* runs to its next await, and other handlers run while it is suspended.   *)
(* One action models one such run-to-await segment of a handler, together  *)
(* with the effect of the awaited call on the container runtime.           *)
(*                                                                         *)
(* Two variants of index.js are in the repository: the one whose container *)
(* clones the repository itself (status starts at 'starting'), and the one *)
(* that clones on the host first (status starts at 'cloning').  hostClone  *)
(* says which one runs; it is chosen in Init and never changes.            *)
(***************************************************************************)
EXTENDS Integers, Sequences, FiniteSets, TLC

\* Bounds of the model.
MaxCreates == 2        \* create requests that pass validation (uuids generated)
MaxDeletes == 2        \* delete requests suspended at the same time

\* Program constants.
PreferredPort == 8080  \* findAvailablePort(8080)
maxAttempts == 10      \* readiness probe: const maxAttempts = 10

\* Request inputs.  "" stands for an empty or missing repoUrl (!repoUrl).
RepoUrls == {"", "repoA", "repoB"}
SessionIds == 1..MaxCreates
NoContainer == 0       \* containerId: null

VARIABLES
  hostClone,       \* TRUE: the host-side clone variant of index.js runs
  crashed,         \* the node process died of an uncaught 'error' event
  nextId,          \* uuidv4(): the next fresh session id
  activeSessions,  \* the Map, as the sequence of its values in insertion order
  creates,         \* per session id: where its POST handler is suspended
  cont,            \* per session id: the state of its container in Docker
  dels,            \* DELETE handlers suspended, by <<id, await, stop outcome>>
  probe,           \* per session id: the readiness probe's position
  attempts,        \* per session id: the probe's `attempts` counter
  polls,           \* history: per session id, the http.get calls of its probe
  resp,            \* the response sent by the last step (NoResp: none sent)
  acked,           \* history: ids whose DELETE was answered with success
  stopCalls,       \* history: per session id, the calls of container.stop()
  listed,          \* history: ids that appeared in the result of a list call
  overlap          \* history: pairs of creates that were in flight together

vars == <<hostClone, crashed, nextId, activeSessions, creates, cont, dels,
          probe, attempts, polls, resp, acked, stopCalls, listed,
          overlap>>

----------------------------------------------------------------------------
\* The registry (const activeSessions = new Map()).

Keys == {activeSessions[i].sessionId : i \in DOMAIN activeSessions}

Has(id) == id \in Keys

Get(id) == activeSessions[CHOOSE i \in DOMAIN activeSessions :
                            activeSessions[i].sessionId = id]

\* activeSessions.delete(id)
MapDelete(reg, id) == SelectSeq(reg, LAMBDA e : e.sessionId # id)

\* activeSessions.set(id, {...}) for a key that is not in the map
MapSet(reg, entry) == Append(reg, entry)

\* Summaries that leaves out the sessions that are not running yet.
SummariesRunningOnly(reg) ==
  LET live == SelectSeq(reg, LAMBDA e : e.status = "running")
  IN [i \in DOMAIN live |->
        [sessionId |-> live[i].sessionId, repoUrl |-> live[i].repoUrl,
         port |-> live[i].port, status |-> live[i].status,
         containerId |-> live[i].containerId]]

\* Array.from(activeSessions.values()).map(session => ({...}))
Summaries(reg) ==
  [i \in DOMAIN reg |->
     [sessionId |-> reg[i].sessionId, repoUrl |-> reg[i].repoUrl,
      port |-> reg[i].port, status |-> reg[i].status,
      containerId |-> reg[i].containerId]]

----------------------------------------------------------------------------
\* Responses.

NoResp == [op |-> "none", code |-> 0, sessionId |-> 0, repoUrl |-> "",
           port |-> 0, status |-> "", sessions |-> <<>>,
           stop |-> "", rmdir |-> ""]

Reply(op, code, id) == [NoResp EXCEPT !.op = op, !.code = code, !.sessionId = id]

----------------------------------------------------------------------------
\* The container runtime and the host's ports.

\* The HostPort a session's container binds: the port its create allocated.
HostPort(id) == creates[id].port

\* A port is bound on the host while a started container publishes it.
PortInUse(p) == \E id \in SessionIds : cont[id] = "running" /\ HostPort(id) = p

\* A suspended DELETE handler: the session id, the call it awaits, and how its
\* container.stop() ended ("skipped": containerId was null, stop not called).
DelKeys == (SessionIds \X {"stop"} \X {"none"})
             \cup (SessionIds \X {"rmdir"} \X {"skipped", "ok", "threw"})

\* The DELETE handlers of session id that are suspended.
InFlightFor(id) ==
  dels[<<id, "stop", "none">>] + dels[<<id, "rmdir", "skipped">>]
    + dels[<<id, "rmdir", "ok">>] + dels[<<id, "rmdir", "threw">>]

\* All suspended DELETE handlers: those of the sessions 1..n.
RECURSIVE InFlightDeletes(_)
InFlightDeletes(n) == IF n = 0 THEN 0 ELSE InFlightFor(n) + InFlightDeletes(n - 1)

NoCreate == [pc |-> "none", repoUrl |-> "", port |-> 0, failedAt |-> ""]

Init ==
  /\ hostClone \in BOOLEAN
  /\ crashed = FALSE
  /\ nextId = 1
  /\ activeSessions = <<>>
  /\ creates = [id \in SessionIds |-> NoCreate]
  /\ cont = [id \in SessionIds |-> "none"]
  /\ dels = [k \in DelKeys |-> 0]
  /\ probe = [id \in SessionIds |-> "none"]
  /\ attempts = [id \in SessionIds |-> 0]
  /\ polls = [id \in SessionIds |-> 0]
  /\ resp = NoResp
  /\ acked = {}
  /\ stopCalls = [id \in SessionIds |-> 0]
  /\ listed = {}
  /\ overlap = {}

----------------------------------------------------------------------------
\* findAvailablePort(startPort).  server.listen(startPort, cb) registers cb as
\* the listener of 'listening', which is called without arguments: err is
\* always undefined, so the listen(0) branch is never taken.  When the bind
\* succeeds the promise resolves with startPort.  When it fails (the port is
\* in use) the server emits 'error', for which no listener is registered:
\* the event is thrown as an uncaught exception and the process dies.
\* The result is the port, or Uncaught.
Uncaught == 0

findAvailablePort(startPort) ==
  IF PortInUse(startPort) THEN Uncaught ELSE startPort

\* Creates suspended at an await.
InFlightCreates ==
  {id \in SessionIds :
     creates[id].pc \in {"port", "clone", "createContainer", "start", "cleanup"}}

\* The catch block's search: the first key, in insertion order, whose session
\* has the request's repoUrl and a status other than 'running' (0: undefined).
CleanupTarget(reg, url) ==
  LET hits == {i \in DOMAIN reg : reg[i].repoUrl = url /\ reg[i].status # "running"}
  IN IF hits = {} THEN 0
     ELSE reg[CHOOSE i \in hits : \A j \in hits : i <= j].sessionId

\* The catch block of the POST handler, entered by the create of session id
\* after the step named by `at` threw.  The registry entry found is deleted
\* at once; the handler then awaits fs.rmdir before it answers.
Catch(id, at) ==
  LET victim == CleanupTarget(activeSessions, creates[id].repoUrl)
  IN IF victim = 0
     THEN /\ activeSessions' = activeSessions
          /\ creates' = [creates EXCEPT ![id].pc = "failed", ![id].failedAt = at]
          /\ resp' = Reply("create", 500, id)
     ELSE /\ activeSessions' = MapDelete(activeSessions, victim)
          /\ creates' = [creates EXCEPT ![id].pc = "cleanup", ![id].failedAt = at]
          /\ resp' = NoResp

----------------------------------------------------------------------------
\* POST /api/dev-server

\* if (!repoUrl) return res.status(400)
PostInvalid(url) ==
  /\ ~crashed
  /\ url = ""
  /\ resp' = Reply("create", 400, 0)
  /\ UNCHANGED <<hostClone, crashed, nextId, activeSessions, creates, cont, dels,
                 probe, attempts, polls, acked, stopCalls, listed, overlap>>

\* PostBegin without the handler's validation of repoUrl.
PostBeginNoValidation(url) ==
  /\ ~crashed
  /\ nextId <= MaxCreates
  /\ LET id == nextId
         port == findAvailablePort(PreferredPort)
     IN /\ nextId' = id + 1
        /\ creates' = [creates EXCEPT ![id] =
                         [pc |-> "port", repoUrl |-> url, port |-> port,
                          failedAt |-> ""]]
        /\ crashed' = (port = Uncaught)
        /\ overlap' = overlap \cup {{id, other} : other \in InFlightCreates}
  /\ resp' = NoResp
  /\ UNCHANGED <<hostClone, activeSessions, cont, dels, probe, attempts, polls, acked, stopCalls,
                 listed>>

\* sessionId = uuidv4(); port = await findAvailablePort(8080): the bind is
\* tried before the handler suspends.
PostBegin(url) ==
  /\ ~crashed
  /\ url # ""
  /\ nextId <= MaxCreates
  /\ LET id == nextId
         port == findAvailablePort(PreferredPort)
     IN /\ nextId' = id + 1
        /\ creates' = [creates EXCEPT ![id] =
                         [pc |-> "port", repoUrl |-> url, port |-> port,
                          failedAt |-> ""]]
        /\ crashed' = (port = Uncaught)
        /\ overlap' = overlap \cup {{id, other} : other \in InFlightCreates}
  /\ resp' = NoResp
  /\ UNCHANGED <<hostClone, activeSessions, cont, dels, probe, attempts, polls, acked, stopCalls,
                 listed>>

\* The handler of a POST request, up to its first await or early return.
Post(url) == PostInvalid(url) \/ PostBegin(url)

\* The port promise resolved: activeSessions.set(sessionId, {...}), then the
\* handler awaits git.clone (host-side clone) or docker.createContainer.
PostRegister(id) ==
  /\ ~crashed
  /\ creates[id].pc = "port"
  /\ activeSessions' = MapSet(activeSessions,
       [sessionId |-> id, repoUrl |-> creates[id].repoUrl,
        port |-> creates[id].port,
        status |-> IF hostClone THEN "cloning" ELSE "starting",
        containerId |-> NoContainer])
  /\ creates' = [creates EXCEPT ![id].pc =
                   IF hostClone THEN "clone" ELSE "createContainer"]
  /\ resp' = NoResp
  /\ UNCHANGED <<hostClone, crashed, nextId, cont, dels, probe, attempts, polls, acked, stopCalls,
                 listed, overlap>>

\* await git.clone(repoUrl, sessionDir) returned or threw; then
\* activeSessions.get(sessionId).status = 'starting' (a TypeError when the
\* entry is gone), then the handler awaits docker.createContainer.
PostCloneReturn(id, ok) ==
  /\ ~crashed
  /\ creates[id].pc = "clone"
  /\ IF ok /\ Has(id)
     THEN /\ activeSessions' =
               [i \in DOMAIN activeSessions |->
                  IF activeSessions[i].sessionId = id
                  THEN [activeSessions[i] EXCEPT !.status = "starting"]
                  ELSE activeSessions[i]]
          /\ creates' = [creates EXCEPT ![id].pc = "createContainer"]
          /\ resp' = NoResp
     ELSE Catch(id, IF ok THEN "update" ELSE "clone")
  /\ UNCHANGED <<hostClone, crashed, nextId, cont, dels, probe, attempts, polls, acked, stopCalls,
                 listed, overlap>>

\* PostCreateContainerReturn that stores the container's handle in the
\* session as soon as the container is created.
PostCreateContainerReturnStoresHandle(id, ok) ==
  /\ ~crashed
  /\ creates[id].pc = "createContainer"
  /\ IF ok
     THEN /\ cont' = [cont EXCEPT ![id] = "created"]
          /\ creates' = [creates EXCEPT ![id].pc = "start"]
          /\ resp' = NoResp
          /\ activeSessions' =
               [i \in DOMAIN activeSessions |->
                  IF activeSessions[i].sessionId = id
                  THEN [activeSessions[i] EXCEPT !.containerId = id]
                  ELSE activeSessions[i]]
     ELSE /\ Catch(id, "createContainer")
          /\ UNCHANGED cont
  /\ UNCHANGED <<hostClone, crashed, nextId, dels, probe, attempts, polls,
                 acked, stopCalls, listed, overlap>>

\* await docker.createContainer(config) returned or threw; on return the
\* handler awaits container.start().
PostCreateContainerReturn(id, ok) ==
  /\ ~crashed
  /\ creates[id].pc = "createContainer"
  /\ IF ok
     THEN /\ cont' = [cont EXCEPT ![id] = "created"]
          /\ creates' = [creates EXCEPT ![id].pc = "start"]
          /\ resp' = NoResp
          /\ UNCHANGED activeSessions
     ELSE /\ Catch(id, "createContainer")
          /\ UNCHANGED cont
  /\ UNCHANGED <<hostClone, crashed, nextId, dels, probe, attempts, polls, acked, stopCalls,
                 listed, overlap>>

\* Running that sets the status and leaves containerId null.
RunningStatusOnly(reg, id) ==
  [i \in DOMAIN reg |->
     IF reg[i].sessionId = id THEN [reg[i] EXCEPT !.status = "running"] ELSE reg[i]]

\* The post-start registry update and the response:
\*   const session = activeSessions.get(sessionId);
\*   session.containerId = container.id; session.status = 'running';
\*   res.json({sessionId, repoUrl, port, status: 'running', url})
Running(reg, id) ==
  [i \in DOMAIN reg |->
     IF reg[i].sessionId = id
     THEN [reg[i] EXCEPT !.containerId = id, !.status = "running"]
     ELSE reg[i]]

\* PostStartReturn whose registry update is activeSessions.set(sessionId, {...})
\* instead of get-and-assign: it puts back an entry that was deleted meanwhile.
PostStartReturnUpsert(id, ok) ==
  /\ ~crashed
  /\ creates[id].pc = "start"
  /\ ok => ~PortInUse(HostPort(id))
  /\ IF ok
     THEN /\ cont' = [cont EXCEPT ![id] = "running"]
          /\ probe' = [probe EXCEPT ![id] = IF hostClone THEN "none" ELSE "timer"]
          /\ activeSessions' =
               IF Has(id) THEN Running(activeSessions, id)
               ELSE MapSet(activeSessions,
                      [sessionId |-> id, repoUrl |-> creates[id].repoUrl,
                       port |-> creates[id].port, status |-> "running",
                       containerId |-> id])
          /\ creates' = [creates EXCEPT ![id].pc = "ok"]
          /\ resp' = [Reply("create", 200, id) EXCEPT
                        !.repoUrl = creates[id].repoUrl,
                        !.port = creates[id].port,
                        !.status = "running"]
     ELSE /\ Catch(id, "start")
          /\ UNCHANGED <<cont, probe>>
  /\ UNCHANGED <<hostClone, crashed, nextId, dels, attempts, polls, acked, stopCalls, listed,
                 overlap>>

\* PostStartReturn that awaits the probe's container.inspect() before it
\* updates the registry and responds.
PostStartReturnAwaitsInspect(id, ok) ==
  /\ ~crashed
  /\ creates[id].pc = "start"
  /\ ok => ~PortInUse(HostPort(id))
  /\ IF ok
     THEN /\ cont' = [cont EXCEPT ![id] = "running"]
          /\ probe' = [probe EXCEPT ![id] = IF hostClone THEN "none" ELSE "check"]
          /\ IF Has(id)
             THEN /\ activeSessions' = Running(activeSessions, id)
                  /\ creates' = [creates EXCEPT ![id].pc = "ok"]
                  /\ resp' = [Reply("create", 200, id) EXCEPT
                                !.repoUrl = creates[id].repoUrl,
                                !.port = creates[id].port,
                                !.status = "running"]
             ELSE Catch(id, "update")
     ELSE /\ Catch(id, "start")
          /\ UNCHANGED <<cont, probe>>
  /\ UNCHANGED <<hostClone, crashed, nextId, dels, attempts, polls, acked, stopCalls,
                 listed, overlap>>

\* await container.start() returned or threw.  Docker starts the container
\* only if its host port is not already published by another one.  On return
\* the container-clone variant arms the readiness timer (setTimeout, 2000).
PostStartReturn(id, ok) ==
  /\ ~crashed
  /\ creates[id].pc = "start"
  /\ ok => ~PortInUse(HostPort(id))
  /\ IF ok
     THEN /\ cont' = [cont EXCEPT ![id] = "running"]
          /\ probe' = [probe EXCEPT ![id] = IF hostClone THEN "none" ELSE "timer"]
          /\ IF Has(id)
             THEN /\ activeSessions' = Running(activeSessions, id)
                  /\ creates' = [creates EXCEPT ![id].pc = "ok"]
                  /\ resp' = [Reply("create", 200, id) EXCEPT
                                !.repoUrl = creates[id].repoUrl,
                                !.port = creates[id].port,
                                !.status = "running"]
             ELSE Catch(id, "update")
     ELSE /\ Catch(id, "start")
          /\ UNCHANGED <<cont, probe>>
  /\ UNCHANGED <<hostClone, crashed, nextId, dels, attempts, polls, acked, stopCalls, listed,
                 overlap>>

\* The catch block's await fs.rmdir(sessionDir) returned or threw (both are
\* only logged): res.status(500)
PostCleanupReturn(id) ==
  /\ ~crashed
  /\ creates[id].pc = "cleanup"
  /\ creates' = [creates EXCEPT ![id].pc = "failed"]
  /\ resp' = Reply("create", 500, id)
  /\ UNCHANGED <<hostClone, crashed, nextId, activeSessions, cont, dels, probe,
                 attempts, polls, acked, stopCalls, listed, overlap>>

----------------------------------------------------------------------------
\* DELETE /api/dev-server/:sessionId

\* DeleteBegin without the lookup's early return: an unknown id goes on to the
\* workspace removal.
DeleteBeginNoLookup(id) ==
  /\ ~crashed
  /\ InFlightDeletes(MaxCreates) < MaxDeletes
  /\ LET k == IF Has(id) /\ Get(id).containerId # NoContainer
              THEN <<id, "stop", "none">>
              ELSE <<id, "rmdir", "skipped">>
     IN /\ dels' = [dels EXCEPT ![k] = @ + 1]
        /\ stopCalls' = IF k[2] = "stop"
                        THEN [stopCalls EXCEPT ![id] = @ + 1] ELSE stopCalls
  /\ resp' = NoResp
  /\ UNCHANGED <<hostClone, crashed, nextId, activeSessions, creates, cont,
                 probe, attempts, polls, acked, listed, overlap>>

\* session = activeSessions.get(sessionId); if (!session) return 404.
\* Otherwise the handler suspends at container.stop() when the session has a
\* containerId, and at fs.rmdir(session.sessionDir) when it has none.
DeleteBegin(id) ==
  /\ ~crashed
  /\ IF ~Has(id)
     THEN /\ resp' = Reply("delete", 404, id)
          /\ UNCHANGED <<dels, stopCalls>>
     ELSE /\ InFlightDeletes(MaxCreates) < MaxDeletes
          /\ LET k == IF Get(id).containerId # NoContainer
                      THEN <<id, "stop", "none">>
                      ELSE <<id, "rmdir", "skipped">>
             IN /\ dels' = [dels EXCEPT ![k] = @ + 1]
                /\ stopCalls' = IF k[2] = "stop"
                                THEN [stopCalls EXCEPT ![id] = @ + 1]
                                ELSE stopCalls
          /\ resp' = NoResp
  /\ UNCHANGED <<hostClone, crashed, nextId, activeSessions, creates, cont,
                 probe, attempts, polls, acked, listed, overlap>>

\* DeleteStopReturn that records the stop in the session's status.
DeleteStopReturnMarksStopping(id, ok) ==
  /\ ~crashed
  /\ dels[<<id, "stop", "none">>] > 0
  /\ ok => cont[id] = "running"
  /\ cont' = IF ok THEN [cont EXCEPT ![id] = "exited"] ELSE cont
  /\ LET k == <<id, "rmdir", IF ok THEN "ok" ELSE "threw">>
     IN dels' = [dels EXCEPT ![<<id, "stop", "none">>] = @ - 1, ![k] = @ + 1]
  /\ activeSessions' =
       [i \in DOMAIN activeSessions |->
          IF activeSessions[i].sessionId = id
          THEN [activeSessions[i] EXCEPT !.status = "stopping"]
          ELSE activeSessions[i]]
  /\ resp' = NoResp
  /\ UNCHANGED <<hostClone, crashed, nextId, creates, probe, attempts, polls,
                 acked, stopCalls, listed, overlap>>

\* await container.stop() returned (the container is stopped) or threw (only
\* logged); the handler then awaits fs.rmdir(session.sessionDir).
DeleteStopReturn(id, ok) ==
  /\ ~crashed
  /\ dels[<<id, "stop", "none">>] > 0
  /\ ok => cont[id] = "running"
  /\ cont' = IF ok THEN [cont EXCEPT ![id] = "exited"] ELSE cont
  /\ LET k == <<id, "rmdir", IF ok THEN "ok" ELSE "threw">>
     IN dels' = [dels EXCEPT ![<<id, "stop", "none">>] = @ - 1, ![k] = @ + 1]
  /\ resp' = NoResp
  /\ UNCHANGED <<hostClone, crashed, nextId, activeSessions, creates, probe,
                 attempts, polls, acked, stopCalls, listed, overlap>>

\* DeleteRmdirReturn with the registry removal inside the try block of the
\* workspace removal: a throwing fs.rmdir skips it.
DeleteRmdirReturnInsideTry(id, st, ok) ==
  /\ ~crashed
  /\ dels[<<id, "rmdir", st>>] > 0
  /\ ok => hostClone
  /\ dels' = [dels EXCEPT ![<<id, "rmdir", st>>] = @ - 1]
  /\ activeSessions' = IF ok THEN MapDelete(activeSessions, id) ELSE activeSessions
  /\ resp' = [Reply("delete", 200, id) EXCEPT
                !.stop = st, !.rmdir = IF ok THEN "ok" ELSE "threw"]
  /\ acked' = acked \cup {id}
  /\ UNCHANGED <<hostClone, crashed, nextId, creates, cont, probe, attempts, polls,
                 stopCalls, listed, overlap>>

\* await fs.rmdir(session.sessionDir, {recursive: true}) returned or threw
\* (only logged).  The container-clone variant stores no sessionDir in the
\* session, so there the call always throws.  Then
\* activeSessions.delete(sessionId); res.json({message})
DeleteRmdirReturn(id, st, ok) ==
  /\ ~crashed
  /\ dels[<<id, "rmdir", st>>] > 0
  /\ ok => hostClone
  /\ dels' = [dels EXCEPT ![<<id, "rmdir", st>>] = @ - 1]
  /\ activeSessions' = MapDelete(activeSessions, id)
  /\ resp' = [Reply("delete", 200, id) EXCEPT
                !.stop = st, !.rmdir = IF ok THEN "ok" ELSE "threw"]
  /\ acked' = acked \cup {id}
  /\ UNCHANGED <<hostClone, crashed, nextId, creates, cont, probe, attempts, polls,
                 stopCalls, listed, overlap>>

----------------------------------------------------------------------------
\* GET /api/dev-server

List ==
  /\ ~crashed
  /\ resp' = [Reply("list", 200, 0) EXCEPT !.sessions = Summaries(activeSessions)]
  /\ listed' = listed \cup Keys
  /\ UNCHANGED <<hostClone, crashed, nextId, activeSessions, creates, cont, dels,
                 probe, attempts, polls, acked, stopCalls, overlap>>

----------------------------------------------------------------------------
\* GET /api/dev-server/:sessionId/logs (a route of the container-clone variant
\* only).  The handler awaits container.logs() and then only formats and
\* sends what the call returned, so both segments are one step; a response
\* with code 200 or 500 means that the container runtime was called.

\* Logs that checks the registry entry only, not its containerId.
LogsNoHandleCheck(id, ok) ==
  /\ ~crashed
  /\ ~hostClone
  /\ resp' = IF ~Has(id)
             THEN Reply("logs", 404, id)
             ELSE Reply("logs", IF ok THEN 200 ELSE 500, id)
  /\ UNCHANGED <<hostClone, crashed, nextId, activeSessions, creates, cont,
                 dels, probe, attempts, polls, acked, stopCalls, listed, overlap>>

\* if (!session || !session.containerId) return 404; otherwise
\* await container.logs({tail: 200}) and res.json({logs}), or 500 when the
\* call throws.
Logs(id, ok) ==
  /\ ~crashed
  /\ ~hostClone
  /\ resp' = IF ~Has(id) \/ Get(id).containerId = NoContainer
             THEN Reply("logs", 404, id)
             ELSE Reply("logs", IF ok THEN 200 ELSE 500, id)
  /\ UNCHANGED <<hostClone, crashed, nextId, activeSessions, creates, cont,
                 dels, probe, attempts, polls, acked, stopCalls, listed, overlap>>

----------------------------------------------------------------------------
\* The container runtime: the process of a started container exits by itself
\* (the case the readiness probe reports as "Container ... exited").
ContainerExit(id) ==
  /\ cont[id] = "running"
  /\ cont' = [cont EXCEPT ![id] = "exited"]
  /\ resp' = NoResp
  /\ UNCHANGED <<hostClone, crashed, nextId, activeSessions, creates, dels,
                 probe, attempts, polls, acked, stopCalls, listed, overlap>>

----------------------------------------------------------------------------
\* The readiness probe (the setTimeout callback armed after container.start).

\* The 2000 ms timer fired: inspect = await container.inspect().  A container
\* that is not running has its logs fetched and printed, and the probe ends
\* (as it does when inspect or logs throws); otherwise check() sends the
\* first http.get.
ProbeInspect(id) ==
  /\ ~crashed
  /\ probe[id] = "timer"
  /\ IF cont[id] = "running"
     THEN /\ probe' = [probe EXCEPT ![id] = "check"]
          /\ polls' = [polls EXCEPT ![id] = @ + 1]
     ELSE /\ probe' = [probe EXCEPT ![id] = "done"]
          /\ UNCHANGED polls
  /\ resp' = NoResp
  /\ UNCHANGED <<hostClone, crashed, nextId, activeSessions, creates, cont, dels,
                 attempts, acked, stopCalls, listed, overlap>>

\* ProbeResult whose retry() tests attempts <= maxAttempts.
ProbeResultOffByOne(id, ok) ==
  /\ ~crashed
  /\ probe[id] = "check"
  /\ ok => PortInUse(HostPort(id))
  /\ IF ok
     THEN /\ probe' = [probe EXCEPT ![id] = "done"]
          /\ UNCHANGED <<attempts, polls>>
     ELSE /\ attempts' = [attempts EXCEPT ![id] = @ + 1]
          /\ IF attempts[id] + 1 <= maxAttempts
             THEN /\ probe' = [probe EXCEPT ![id] = "check"]
                  /\ polls' = [polls EXCEPT ![id] = @ + 1]
             ELSE /\ probe' = [probe EXCEPT ![id] = "done"]
                  /\ UNCHANGED polls
  /\ resp' = NoResp
  /\ UNCHANGED <<hostClone, crashed, nextId, activeSessions, creates, cont, dels,
                 acked, stopCalls, listed, overlap>>

\* ProbeResult that removes the session from the registry when the retry
\* budget is exhausted.
ProbeResultRemovesUnready(id, ok) ==
  /\ ~crashed
  /\ probe[id] = "check"
  /\ ok => PortInUse(HostPort(id))
  /\ IF ok
     THEN /\ probe' = [probe EXCEPT ![id] = "done"]
          /\ UNCHANGED <<attempts, polls, activeSessions>>
     ELSE /\ attempts' = [attempts EXCEPT ![id] = @ + 1]
          /\ IF attempts[id] + 1 < maxAttempts
             THEN /\ probe' = [probe EXCEPT ![id] = "check"]
                  /\ polls' = [polls EXCEPT ![id] = @ + 1]
                  /\ UNCHANGED activeSessions
             ELSE /\ probe' = [probe EXCEPT ![id] = "done"]
                  /\ activeSessions' = MapDelete(activeSessions, id)
                  /\ UNCHANGED polls
  /\ resp' = NoResp
  /\ UNCHANGED <<hostClone, crashed, nextId, creates, cont, dels, acked,
                 stopCalls, listed, overlap>>

\* The http.get of check() ended: with status 200 (some server answers on the
\* port), or with another status or an error, which calls retry():
\* attempts++; if (attempts < maxAttempts) setTimeout(check, 1000), and check
\* sends the next http.get.
ProbeResult(id, ok) ==
  /\ ~crashed
  /\ probe[id] = "check"
  /\ ok => PortInUse(HostPort(id))
  /\ IF ok
     THEN /\ probe' = [probe EXCEPT ![id] = "done"]
          /\ UNCHANGED <<attempts, polls>>
     ELSE /\ attempts' = [attempts EXCEPT ![id] = @ + 1]
          /\ IF attempts[id] + 1 < maxAttempts
             THEN /\ probe' = [probe EXCEPT ![id] = "check"]
                  /\ polls' = [polls EXCEPT ![id] = @ + 1]
             ELSE /\ probe' = [probe EXCEPT ![id] = "done"]
                  /\ UNCHANGED polls
  /\ resp' = NoResp
  /\ UNCHANGED <<hostClone, crashed, nextId, activeSessions, creates, cont, dels,
                 acked, stopCalls, listed, overlap>>

----------------------------------------------------------------------------
\* The callbacks of the readiness probe write probe, attempts and polls only, and no
\* handler reads either: Next leaves them out, and NextProbe has them.
Next ==
  \/ \E url \in RepoUrls : Post(url)
  \/ \E id \in SessionIds : PostRegister(id)
  \/ \E id \in SessionIds, ok \in BOOLEAN : PostCloneReturn(id, ok)
  \/ \E id \in SessionIds, ok \in BOOLEAN : PostCreateContainerReturn(id, ok)
  \/ \E id \in SessionIds, ok \in BOOLEAN : PostStartReturn(id, ok)
  \/ \E id \in SessionIds : PostCleanupReturn(id)
  \/ \E id \in SessionIds : DeleteBegin(id)
  \/ \E id \in SessionIds, ok \in BOOLEAN : DeleteStopReturn(id, ok)
  \/ \E id \in SessionIds, st \in {"skipped", "ok", "threw"}, ok \in BOOLEAN :
       DeleteRmdirReturn(id, st, ok)
  \/ List
  \/ \E id \in SessionIds, ok \in BOOLEAN : Logs(id, ok)
  \/ \E id \in SessionIds : ContainerExit(id)

\* The container-clone variant with its readiness probe, for requests that
\* create and delete sessions of one repository: the list, logs and rejected
\* requests write resp and listed only, which no probe step reads.
NextProbe ==
  \/ PostBegin("repoA")
  \/ \E id \in SessionIds : PostRegister(id)
  \/ \E id \in SessionIds, ok \in BOOLEAN : PostCreateContainerReturn(id, ok)
  \/ \E id \in SessionIds, ok \in BOOLEAN : PostStartReturn(id, ok)
  \/ \E id \in SessionIds : PostCleanupReturn(id)
  \/ \E id \in SessionIds : DeleteBegin(id)
  \/ \E id \in SessionIds, ok \in BOOLEAN : DeleteStopReturn(id, ok)
  \/ \E id \in SessionIds, st \in {"skipped", "ok", "threw"}, ok \in BOOLEAN :
       DeleteRmdirReturn(id, st, ok)
  \/ \E id \in SessionIds : ContainerExit(id)
  \/ \E id \in SessionIds : ProbeInspect(id)
  \/ \E id \in SessionIds, ok \in BOOLEAN : ProbeResult(id, ok)

InitProbe == Init /\ hostClone = FALSE

SpecProbe == InitProbe /\ [][NextProbe]_vars

Spec == Init /\ [][Next]_vars

\* The continuations of the suspended POST handlers: docker.createContainer,
\* container.start, git.clone and fs.rmdir settle, and the continuation of a
\* settled promise is run by the event loop.
PostContinues ==
  \/ \E id \in SessionIds : PostRegister(id)
  \/ \E id \in SessionIds, ok \in BOOLEAN : PostCloneReturn(id, ok)
  \/ \E id \in SessionIds, ok \in BOOLEAN : PostCreateContainerReturn(id, ok)
  \/ \E id \in SessionIds, ok \in BOOLEAN : PostStartReturn(id, ok)
  \/ \E id \in SessionIds : PostCleanupReturn(id)

\* The continuation of a DELETE handler suspended at fs.rmdir.
DeleteRmdirContinues ==
  \E id \in SessionIds, st \in {"skipped", "ok", "threw"}, ok \in BOOLEAN :
    DeleteRmdirReturn(id, st, ok)

\* Spec with the progress the event loop gives.  await container.stop() has
\* no timeout and nothing else resumes the handler, so the return of a stop
\* call has no fairness: the call may never complete.
SpecFair ==
  /\ Init /\ [][Next]_vars
  /\ WF_vars(PostContinues)
  /\ WF_vars(DeleteRmdirContinues)


----------------------------------------------------------------------------
\* Properties.

CreateOk == resp.op = "create" /\ resp.code = 200
CreateError == resp.op = "create" /\ resp.code = 500

\* C1: at the instant a create returns success, the port in its response
\* differs from the port of every other session in the registry.
C1_PortUniqueAtReturn ==
  CreateOk =>
    \A i \in DOMAIN activeSessions :
      activeSessions[i].sessionId # resp.sessionId
        => activeSessions[i].port # resp.port

C2_AckedIsRemoved ==
  /\ resp.op = "delete" /\ resp.code = 200 => ~Has(resp.sessionId)
  /\ resp.op = "delete" => resp.code \in {200, 404}
  /\ resp.op = "list" =>
       \A i \in DOMAIN resp.sessions : resp.sessions[i].sessionId \notin acked

C2_HandlerEndsWithAck ==
  \A id \in SessionIds :
    InFlightFor(id)' < InFlightFor(id) =>
      /\ resp' = [Reply("delete", 200, id) EXCEPT !.stop = resp'.stop,
                                                  !.rmdir = resp'.rmdir]
      /\ ~Has(id)'
      /\ id \in acked'

\* C2: a delete of an id in the registry ends, whether container.stop and
\* fs.rmdir return or throw, with the id removed and a success response, and
\* no list made after that response contains the id.
C2_DeleteRemovesAndAcks == []C2_AckedIsRemoved /\ [][C2_HandlerEndsWithAck]_vars

\* A delete answered with success although stop and rmdir both threw.
C2_Witness ==
  /\ resp.op = "delete" /\ resp.code = 200
  /\ resp.stop = "threw" /\ resp.rmdir = "threw"

C3_UnknownIdStep ==
  \A id \in SessionIds :
    DeleteBegin(id) /\ ~Has(id) =>
      /\ resp' = Reply("delete", 404, id)
      /\ UNCHANGED <<activeSessions, dels, cont, acked>>

\* C3: a delete of an id that is not in the registry returns not-found, calls
\* neither container.stop nor fs.rmdir (no handler is left suspended at one),
\* and leaves the registry as it was.
C3_UnknownDeleteIsNotFound == [][C3_UnknownIdStep]_vars

\* A not-found answer while the registry holds another session.
C3_Witness ==
  /\ resp.op = "delete" /\ resp.code = 404
  /\ activeSessions # <<>>
  /\ ~Has(resp.sessionId)

C4_EmptyUrlStep ==
  \A url \in RepoUrls :
    Post(url) /\ url = "" =>
      /\ resp' = Reply("create", 400, 0)
      /\ UNCHANGED <<activeSessions, creates, nextId, cont, crashed, overlap>>

\* C4: a create with an empty or missing repoUrl returns the validation
\* error, allocates no port, creates no container and leaves the registry
\* unchanged, whatever sessions exist.
C4_EmptyUrlRejected == [][C4_EmptyUrlStep]_vars

\* The validation error sent while other sessions exist.
C4_Witness ==
  /\ resp.op = "create" /\ resp.code = 400
  /\ Len(activeSessions) = 2

\* C5: when a create reports a creation error, the session id of that request
\* is not in the registry once the error response has been sent.
C5_FailedCreateNotInRegistry == CreateError => ~Has(resp.sessionId)

\* C6: the id of a create whose container.start threw never appears in the
\* result of a list call, also not of one served while the create was
\* suspended.
C6_StartFailureNeverListed ==
  \A id \in SessionIds : creates[id].failedAt = "start" => id \notin listed

\* C7: two overlapping creates with the same repoUrl that both succeeded have
\* distinct ids and distinct ports.
C7_OverlappingCreatesDistinct ==
  \A a, b \in SessionIds :
    /\ {a, b} \in overlap /\ a # b
    /\ creates[a].pc = "ok" /\ creates[b].pc = "ok"
    /\ creates[a].repoUrl = creates[b].repoUrl
    => creates[a].port # creates[b].port

\* C8: after a create that was allocated port p failed at container.start and
\* answered, nothing the orchestrator tracks for it holds p: its container
\* does not publish p and no registry entry of that session records p.
C8_PortReleasedAfterStartFailure ==
  \A id \in SessionIds :
    creates[id].pc = "failed" /\ creates[id].failedAt = "start" =>
      /\ cont[id] # "running"
      /\ \A i \in DOMAIN activeSessions :
           activeSessions[i].sessionId = id
             => activeSessions[i].port # creates[id].port

\* The id was put into the registry at some time.
Registered(id) == creates[id].pc \notin {"none", "port"}

C9_RemovedStaysOut ==
  \A id \in SessionIds :
    /\ Registered(id) /\ ~Has(id) => ~Has(id)'
    /\ id \in acked /\ DeleteBegin(id) => resp' = Reply("delete", 404, id)

\* C9: once a delete of s has returned success, s is not in the registry, an
\* id that left the registry never re-enters it, and every later delete
\* request for s returns not-found.
C9_SecondDeleteNotFound ==
  [](\A id \in acked : ~Has(id)) /\ [][C9_RemovedStaysOut]_vars

\* A second delete of a deleted session, answered not-found.
C9_Witness ==
  /\ resp.op = "delete" /\ resp.code = 404
  /\ resp.sessionId \in acked

C10_EntryAtReturn ==
  CreateOk =>
    /\ resp.status = "running"
    /\ Has(resp.sessionId)
    /\ Get(resp.sessionId) =
         [sessionId |-> resp.sessionId, repoUrl |-> resp.repoUrl,
          port |-> resp.port, status |-> "running",
          containerId |-> resp.sessionId]
    /\ Get(resp.sessionId).containerId # NoContainer

C10_ListedRightAfter ==
  CreateOk /\ resp'.op = "list" =>
    \E i \in DOMAIN resp'.sessions :
      resp'.sessions[i] =
        [sessionId |-> resp.sessionId, repoUrl |-> resp.repoUrl,
         port |-> resp.port, status |-> "running",
         containerId |-> resp.sessionId]

\* C10: at the instant a create returns success the registry holds, under the
\* returned id, an entry with the response's repoUrl and port, status
\* 'running' and a containerId; a list call that follows with nothing in
\* between contains that entry.
C10_SuccessIsRegistered == []C10_EntryAtReturn /\ [][C10_ListedRightAfter]_vars

\* A create returning success as the second session of the registry.
C10_Witness ==
  /\ CreateOk
  /\ Len(activeSessions) = 2
  /\ activeSessions[2].sessionId = resp.sessionId

C13_ListStep ==
  resp'.op = "list" =>
    /\ resp'.code = 200
    /\ Len(resp'.sessions) = Len(activeSessions)
    /\ \A i \in DOMAIN activeSessions :
         resp'.sessions[i] =
           [sessionId |-> activeSessions[i].sessionId,
            repoUrl |-> activeSessions[i].repoUrl,
            port |-> activeSessions[i].port,
            status |-> activeSessions[i].status,
            containerId |-> activeSessions[i].containerId]
    /\ UNCHANGED <<activeSessions, creates, cont, dels, nextId, crashed>>

\* C13: a list request returns one summary (id, repoUrl, port, status,
\* containerId) for each registry entry, the empty sequence for the empty
\* registry, never an error, and changes neither the registry nor a session.
C13_ListProjectsRegistry ==
  [](resp.op = "list" => resp.code = 200) /\ [][C13_ListStep]_vars

\* A list result with two sessions, one of them not running yet.
C13_Witness ==
  /\ resp.op = "list"
  /\ Len(resp.sessions) = 2
  /\ \E i \in DOMAIN resp.sessions : resp.sessions[i].status # "running"

\* C14: port allocation with preferred port 8080 returns 8080 when it is
\* free and, when it is in use, completes with another free port: every
\* create that asked for a port has one and the process is running.
C14_AllocationCompletes ==
  /\ ~crashed
  /\ \A id \in SessionIds :
       creates[id].pc # "none" => creates[id].port # Uncaught

\* fs.rmdir has been called for the workspace of session id (by a DELETE
\* handler, which is or was suspended at it).
RmdirCalled(id) ==
  dels[<<id, "rmdir", "skipped">>] + dels[<<id, "rmdir", "ok">>]
    + dels[<<id, "rmdir", "threw">>] > 0

\* C15: on every path that removes a session from the registry, the removal
\* of its workspace directory is attempted before the entry is removed.
C15_WorkspaceRemovedFirst ==
  [][\A id \in SessionIds : Has(id) /\ ~Has(id)' => RmdirCalled(id)]_vars

\* container.start() of session id returned without error.
Started(id) == cont[id] \in {"running", "exited"}

\* C19: a create whose port allocation, container creation and container
\* start all succeeded returns the success response; it never ends in the
\* catch block.
C19_StartedCreateSucceeds ==
  \A id \in SessionIds :
    Started(id) => creates[id].pc \notin {"cleanup", "failed"}

\* C20: a create that fails removes or modifies no registry entry but the
\* one of its own session id.
C20_FailureTouchesOwnEntryOnly ==
  [][\A id \in SessionIds :
       creates[id].failedAt = "" /\ creates'[id].failedAt # ""
         => MapDelete(activeSessions', id) = MapDelete(activeSessions, id)]_vars

\* C16: the registry entry of a session is removed only after stop has been
\* called on its container: no session has a container that is started, or
\* that an in-flight create is about to start, while its entry is removed and
\* stop was never called for it.
C16_RemovedOnlyAfterStop ==
  \A id \in SessionIds :
    /\ Registered(id)
    /\ ~Has(id)
    /\ cont[id] = "running" \/ creates[id].pc = "start"
    => stopCalls[id] > 0

\* C18: a delete accepted while the session was still starting (it called no
\* stop, so no stop call failed) and the create of that session have both
\* finished: no container of the session runs without a registry entry.
C18_NoOrphanAfterEarlyDelete ==
  \A id \in acked :
    /\ stopCalls[id] = 0
    /\ creates[id].pc \in {"ok", "failed"}
    /\ InFlightFor(id) = 0
    => ~(cont[id] = "running" /\ ~Has(id))

C12_LogsStep ==
  /\ resp'.op = "logs"
  /\ \/ ~Has(resp'.sessionId)
     \/ Get(resp'.sessionId).containerId = NoContainer
  => /\ resp'.code = 404
     /\ UNCHANGED <<activeSessions, creates, cont, dels, stopCalls>>

\* C12: a fetch-logs request for an id that is not in the registry, or whose
\* entry has no container handle yet, returns not-found without calling the
\* container runtime (no 200 or 500 answer) and leaves the registry unchanged.
C12_LogsWithoutHandleNotFound == [][C12_LogsStep]_vars

\* A fetch-logs request answered not-found for a session that is in the
\* registry and still starting.
C12_Witness ==
  /\ resp.op = "logs"
  /\ resp.code = 404
  /\ Has(resp.sessionId)
  /\ Get(resp.sessionId).status = "starting"

\* C17: a delete request that has found its session and called stop
\* eventually removes the registry entry and answers the caller, also when
\* the stop call never completes.
C17_DeleteAnswersDespiteStuckStop ==
  \A id \in SessionIds :
    dels[<<id, "stop", "none">>] > 0 ~> (id \in acked /\ ~Has(id)) \/ crashed

\* A callback of the readiness probe of session id runs in this step.
ProbeStep(id) ==
  /\ probe[id] \in {"timer", "check"}
  /\ probe'[id] # probe[id] \/ attempts'[id] # attempts[id]

C11_ProbeSendsNothing ==
  \A id \in SessionIds :
    ProbeStep(id) => resp' = NoResp /\ UNCHANGED <<creates, activeSessions>>

\* C11: a create marks its session running and sends its response in the
\* step in which container.start returns: at that instant the probe of the
\* session has only been armed (no inspect, no health poll), and no later
\* step of the probe, whatever its outcome, sends or changes a response.
C11_ResponseDoesNotAwaitProbe ==
  /\ [](CreateOk =>
          /\ probe[resp.sessionId] = "timer"
          /\ attempts[resp.sessionId] = 0
          /\ Get(resp.sessionId).status = "running")
  /\ [][C11_ProbeSendsNothing]_vars

\* The success response of a create whose probe has not run yet.
C11_Witness ==
  /\ CreateOk
  /\ cont[resp.sessionId] = "running"
  /\ probe[resp.sessionId] = "timer"

C21_DeleteStep ==
  /\ \A id \in acked :
       resp'.op = "delete" /\ resp'.sessionId = id /\ dels' # dels
         => resp'.code = 404
  /\ \A id \in SessionIds : stopCalls'[id] <= 1

\* C21: of the delete requests for one session id exactly one is answered
\* with success, every other one with not-found, and container.stop() is
\* called at most once for the session.
C21_OneDeleteWins == [][C21_DeleteStep]_vars

\* The steps the probe of session id can still take, at most.
Budget(id) ==
  CASE probe[id] = "none" -> maxAttempts + 2
    [] probe[id] = "timer" -> maxAttempts + 1
    [] probe[id] = "check" -> maxAttempts - attempts[id]
    [] OTHER -> 0

C22_ProbeStep ==
  \A id \in SessionIds :
    /\ ProbeStep(id) => Budget(id)' < Budget(id)
    /\ probe[id] = "done" => probe'[id] = "done" /\ polls'[id] = polls[id]
    /\ probe[id] = "timer" /\ cont[id] # "running" /\ probe'[id] # "timer"
         => probe'[id] = "done" /\ polls'[id] = 0

\* C22: the readiness probe terminates: every step of it uses up its budget,
\* it makes at most 10 health polls, none after a 200 answer or after the
\* 10th failure, and none at all when the container is found not running.
C22_ProbeTerminates ==
  /\ [](\A id \in SessionIds :
          /\ polls[id] <= maxAttempts
          /\ attempts[id] <= maxAttempts
          /\ probe[id] = "check" => attempts[id] < maxAttempts
          /\ Budget(id) >= 0)
  /\ [][C22_ProbeStep]_vars

\* A probe that gave up after its 10th failed poll.
C22_Witness ==
  \E id \in SessionIds :
    probe[id] = "done" /\ attempts[id] = maxAttempts /\ polls[id] = maxAttempts

\* C23: no step of the readiness probe changes the registry or a session:
\* the entries and their fields are the same after the step as before it.
C23_ProbeLeavesRegistry ==
  [][\A id \in SessionIds :
       ProbeStep(id) => UNCHANGED <<activeSessions, cont, nextId>>]_vars

\* A probe that ended, after an exit of the container or after its last
\* failed poll, while the session is still in the registry as running.
C23_Witness ==
  \E id \in SessionIds :
    /\ probe[id] = "done"
    /\ cont[id] = "exited" \/ attempts[id] = maxAttempts
    /\ Has(id)
    /\ Get(id).status = "running"

\* C24: once a session has been deleted, its readiness probe makes no
\* further inspect call and sends no further health poll.
C24_ProbeStopsAfterDelete ==
  [][\A id \in acked :
       /\ polls'[id] = polls[id]
       /\ probe[id] = "timer" => probe'[id] = "timer"]_vars

\* The place of a status in the lifecycle order.
Rank(status) ==
  CASE status = "cloning" -> 0
    [] status = "starting" -> 1
    [] status = "running" -> 2
    [] OTHER -> 3

C25_EntryStep ==
  \A id \in SessionIds :
    Has(id) /\ Has(id)' =>
      /\ Get(id)'.sessionId = Get(id).sessionId
      /\ Get(id)'.repoUrl = Get(id).repoUrl
      /\ Get(id)'.port = Get(id).port
      /\ Rank(Get(id)'.status) >= Rank(Get(id).status)
      /\ Get(id).status = "running" => Get(id)'.status = "running"

\* C25: the status of a registry entry only moves forward (cloning, starting,
\* running), never changes after running, and the entry's id, repository URL
\* and port stay what they were at its insertion.
C25_StatusMovesForward ==
  /\ [](\A i \in DOMAIN activeSessions :
          /\ Rank(activeSessions[i].status) <= 2
          /\ activeSessions[i].repoUrl = creates[activeSessions[i].sessionId].repoUrl
          /\ activeSessions[i].port = creates[activeSessions[i].sessionId].port)
  /\ [][C25_EntryStep]_vars

\* An entry of the host-side clone variant that went from cloning through
\* starting to running, with a delete request past its stop call.
C25_Witness ==
  \E id \in SessionIds :
    /\ hostClone
    /\ Has(id)
    /\ Get(id).status = "running"
    /\ dels[<<id, "rmdir", "ok">>] > 0

\* C26: every registry entry is stored under its own session id (one entry
\* per id), its status is running if and only if its container handle is
\* set, and a running entry refers to the container of its own session,
\* whose start returned without error.
C26_HandleIffRunning ==
  \A i \in DOMAIN activeSessions :
    LET e == activeSessions[i] IN
      /\ e.sessionId \in SessionIds
      /\ Registered(e.sessionId)
      /\ \A j \in DOMAIN activeSessions :
           activeSessions[j].sessionId = e.sessionId => j = i
      /\ e.status = "running" <=> e.containerId # NoContainer
      /\ e.status = "running" => e.containerId = e.sessionId /\ Started(e.sessionId)

\* A registry with one running entry and one that is still starting, after
\* the container of the latter has been created.
C26_Witness ==
  \E i, j \in DOMAIN activeSessions :
    /\ activeSessions[i].status = "running"
    /\ activeSessions[j].status = "starting"
    /\ cont[activeSessions[j].sessionId] = "created"

====
